---- MODULE Spec2Model ----
(***************************************************************************)
(* Model of electron-reload-esm (src/main.js): electronReload(glob,        *)
(* options) wires a general chokidar watcher to a soft reset (reload of    *)
(* every tracked BrowserWindow) and, when options.electron is given, a     *)
(* second watcher on the main file to a one-shot hard reset (spawn a new   *)
(* electron process, then quit or exit the current one).                   *)
(***************************************************************************)
EXTENDS Integers, Sequences, FiniteSets, TLC

(* ---------------------------- bounds ---------------------------------- *)
MaxLive == 2          \* longest browserWindows list explored
MaxListeners == 2     \* most 'closed' listeners registered on one window
MaxChanges == 2       \* most 'change' events delivered by the general watcher
MaxRespawns == 2      \* most hard resets explored (the code allows one)

(* ---------------------------- values ----------------------------------- *)
Absent == "undefined"                 \* a missing string option (JS undefined)
Undef == [ given |-> FALSE, val |-> <<>> ]    \* a missing array or set option
Given(v) == [ given |-> TRUE, val |-> v ]     \* a supplied array or set option
NoPath == <<>>                        \* no path in an event record
NoWin == "none"                       \* no window in an event record
Windows == {"A", "B"}                 \* BrowserWindow handles

appPath == "/app"                     \* app.getAppPath()
mainFile == <<"app", "main.js">>      \* the file that imported the module
glob == <<"app">>                     \* the watched directory

\* files whose change the file system may report
Paths ==
  { mainFile,
    <<"app", "src", "a.js">>,
    <<"app", "node_modules", "m.js">>,
    <<"app", ".git", "config">>,
    <<"app", "dist", "out.js">>,
    <<"other", "b.js">> }

\* the file system at call time: executables the caller may name
ExePaths == {"/nonexistent", "/bin/notexec", "/bin/electron"}
FileExists(p) == p \in {"/bin/notexec", "/bin/electron"}
FileExecutable(p) == p = "/bin/electron"

UserIgnored == {"userDist"}           \* options.ignored as supplied by a caller

Configs ==
  [ electron : {Absent} \cup ExePaths,
    hardResetMethod : {Absent, "quit", "exit"},
    electronArgv : {Undef, Given(<<>>), Given(<<"--inspect">>)},
    appArgv : {Undef, Given(<<"--flag">>)},
    forceHardReset : BOOLEAN,
    ignored : {Undef, Given(UserIgnored)} ]

(* ---------------------------- state ------------------------------------ *)
VARIABLES
  options,          \* the options object of the call (read-only)
  pc,               \* position inside electronReload
  browserWindows,   \* the list of maintained BrowserWindows
  appListeners,     \* 'browser-window-created' listeners on app
  closedListeners,  \* per window: number of 'closed' listeners registered
  watcher,          \* the general chokidar watcher
  hardWatcher,      \* the main-file chokidar watcher
  proc,             \* the electron process: running, quitting or exited
  reloadAllCount,   \* softResetHandler runs so far
  changeCount,      \* 'change' events emitted by the general watcher so far
  respawns,         \* spawn() calls so far
  closedWins,       \* windows whose latest lifecycle event is 'closed'
  order,            \* the windows ever created, in order of first creation
  wellBehaved,      \* no window was created twice or closed twice so far
  ev                \* what the last event did

vars == << options, pc, browserWindows, appListeners, closedListeners, watcher,
           hardWatcher, proc, reloadAllCount, changeCount, respawns, closedWins,
           order, wellBehaved, ev >>

NoWatcher == [ created |-> FALSE, closed |-> FALSE, paths |-> {},
               ignored |-> {}, on |-> 0, once |-> 0 ]

NoEvent == [ op |-> "none", path |-> NoPath, win |-> NoWin, pre |-> <<>>,
             sweeps |-> <<>>, calls |-> <<>> ]

(* ---------------------------- chokidar --------------------------------- *)
\* ignoredPaths = /node_modules|[/\\]\./ on a path given by its segments
MatchesIgnoredPaths(p) ==
  \E i \in 1..Len(p) : p[i] \in {"node_modules", ".git"}

\* one entry of an `ignored` list against a path
Matches(m, p) ==
  CASE m = "ignoredPaths" -> MatchesIgnoredPaths(p)
    [] m = "mainFile" -> p = mainFile
    [] m = "userDist" -> \E i \in 1..Len(p) : p[i] = "dist"
    [] OTHER -> FALSE

\* a watched path (file or directory) covers p
Covers(root, p) ==
  /\ Len(root) <= Len(p)
  /\ SubSeq(p, 1, Len(root)) = root

\* Object.assign({ ignored: dflt }, options): a caller's key replaces the default
AssignIgnored(dflt, opts) ==
  IF opts.ignored.given THEN opts.ignored.val ELSE dflt

\* chokidar.watch(paths, opts)
ChokidarWatch(paths, ign) ==
  [ created |-> TRUE, closed |-> FALSE, paths |-> paths, ignored |-> ign,
    on |-> 0, once |-> 0 ]

\* the watcher emits 'change' for p
Emits(w, p) ==
  /\ w.created
  /\ ~w.closed
  /\ \E r \in w.paths : Covers(r, p)
  /\ ~\E m \in w.ignored : Matches(m, p)

(* ---------------------------- window list ------------------------------ *)
\* Array.prototype.indexOf: first index of w (1-based), 0 for JS's -1
RECURSIVE IndexFrom(_, _, _)
IndexFrom(list, w, i) ==
  IF i > Len(list) THEN 0
  ELSE IF list[i] = w THEN i
  ELSE IndexFrom(list, w, i + 1)

IndexOf(list, w) == IndexFrom(list, w, 1)

\* Array.prototype.splice(start, 1) with the 0-based JS start (may be -1):
\* a negative start counts from the end of the array
Splice1(list, start) ==
  LET n == Len(list)
      from == IF start < 0 THEN (IF n + start < 0 THEN 0 ELSE n + start)
              ELSE (IF start > n THEN n ELSE start)
  IN  IF from >= n THEN list
      ELSE SubSeq(list, 1, from) \o SubSeq(list, from + 2, n)

\* variant: unshift instead of push
PushFront(list, bw) == <<bw>> \o list

\* browserWindows.push(bw)
Push(list, bw) == Append(list, bw)

\* variant: the 1-based position is used as the splice start
ClosedHandlerOffByOne(list, bw) == Splice1(list, IndexOf(list, bw))

\* the 'closed' listener of bw
ClosedHandler(list, bw) ==
  LET i == IndexOf(list, bw) - 1      \* the JS index, -1 when not found
  IN  Splice1(list, i)

\* bw emits 'closed': each of its n listeners runs in turn
RECURSIVE RunClosed(_, _, _)
RunClosed(list, bw, n) ==
  IF n = 0 THEN list ELSE RunClosed(ClosedHandler(list, bw), bw, n - 1)

\* browserWindows.forEach(bw => bw.webContents.reloadIgnoringCache()):
\* the windows reloaded, in the order of the calls
RECURSIVE ForEachReload(_, _)
ForEachReload(list, i) ==
  IF i > Len(list) THEN <<>>
  ELSE <<list[i]>> \o ForEachReload(list, i + 1)

\* variant: the sweep stops before the last window
softResetHandlerShort(list) ==
  IF list = <<>> THEN <<>> ELSE ForEachReload(SubSeq(list, 1, Len(list) - 1), 1)

softResetHandler(list) == ForEachReload(list, 1)

\* the watcher emits 'change': each of its n listeners runs softResetHandler
RECURSIVE RunSoft(_, _)
RunSoft(list, n) ==
  IF n = 0 THEN <<>> ELSE <<softResetHandler(list)>> \o RunSoft(list, n - 1)

(* ---------------------------- hard reset ------------------------------- *)
\* (eArgv || []).concat([appPath]).concat(aArgv || [])
OrEmpty(a) == IF a.given THEN a.val ELSE <<>>

\* variant: the application path is put first
SpawnArgsAppFirst(eArgv, aArgv) == (<<appPath>> \o OrEmpty(eArgv)) \o OrEmpty(aArgv)

SpawnArgs(eArgv, aArgv) == (OrEmpty(eArgv) \o <<appPath>>) \o OrEmpty(aArgv)

\* variant: the test is for 'quit', so a missing method exits
TerminatorQuitTest(hardResetMethod) ==
  IF hardResetMethod = "quit" THEN "app.quit" ELSE "app.exit"

\* hardResetMethod === 'exit' ? app.exit() : app.quit()
Terminator(hardResetMethod) ==
  IF hardResetMethod = "exit" THEN "app.exit" ELSE "app.quit"

\* variant: the process is asked to terminate before the child is spawned
hardResetHandlerKillFirst(opts) ==
  << [ fn |-> Terminator(opts.hardResetMethod), exe |-> opts.electron,
       args |-> <<>>, detached |-> TRUE, stdio |-> "inherit" ],
     [ fn |-> "spawn", exe |-> opts.electron,
       args |-> SpawnArgs(opts.electronArgv, opts.appArgv),
       detached |-> TRUE, stdio |-> "inherit" ],
     [ fn |-> "child.unref", exe |-> opts.electron, args |-> <<>>,
       detached |-> TRUE, stdio |-> "inherit" ] >>

\* the calls made by the handler createHardresetHandler returns, in order
hardResetHandler(opts) ==
  << [ fn |-> "spawn", exe |-> opts.electron,
       args |-> SpawnArgs(opts.electronArgv, opts.appArgv),
       detached |-> TRUE, stdio |-> "inherit" ],
     [ fn |-> "child.unref", exe |-> opts.electron, args |-> <<>>,
       detached |-> TRUE, stdio |-> "inherit" ],
     [ fn |-> Terminator(opts.hardResetMethod), exe |-> opts.electron,
       args |-> <<>>, detached |-> TRUE, stdio |-> "inherit" ] >>

\* variant: app.quit() ends the process at once, like app.exit()
AfterTerminatorImmediate(p, fn) == "exited"

\* the process after app.exit() or app.quit()
AfterTerminator(p, fn) ==
  IF fn = "app.exit" THEN "exited"
  ELSE IF p = "running" THEN "quitting" ELSE p

(* ---------------------------- electronReload --------------------------- *)
Init ==
  /\ options \in Configs
  /\ pc = "start"
  /\ browserWindows = <<>>
  /\ appListeners = 0
  /\ closedListeners = [w \in Windows |-> 0]
  /\ watcher = NoWatcher
  /\ hardWatcher = NoWatcher
  /\ proc = "running"
  /\ reloadAllCount = 0
  /\ changeCount = 0
  /\ respawns = 0
  /\ closedWins = {}
  /\ order = <<>>
  /\ wellBehaved = TRUE
  /\ ev = NoEvent

\* const watcher = chokidar.watch(glob, Object.assign({ ignored: [ignoredPaths, mainFile] }, options))
GeneralIgnored(opts) == AssignIgnored({"ignoredPaths", "mainFile"}, opts)

WatchGeneral ==
  /\ pc = "start"
  /\ watcher' = ChokidarWatch({glob}, GeneralIgnored(options))
  /\ pc' = "appOn"
  /\ UNCHANGED << options, browserWindows, appListeners, closedListeners,
                  hardWatcher, proc, reloadAllCount, changeCount, respawns, closedWins,
                  order, wellBehaved, ev >>

\* app.on('browser-window-created', ...)
AppOnCreated ==
  /\ pc = "appOn"
  /\ appListeners' = appListeners + 1
  /\ pc' = "watcherOn"
  /\ UNCHANGED << options, browserWindows, closedListeners, watcher,
                  hardWatcher, proc, reloadAllCount, changeCount, respawns, closedWins,
                  order, wellBehaved, ev >>

\* variant: the soft reset listener is never registered
WatcherOnForgotten(w) == w

\* variant: the soft reset listener is registered with once()
WatcherOnAsOnce(w) == [w EXCEPT !.once = @ + 1]

\* watcher.on('change', softResetHandler)
WatcherOn(w) == [w EXCEPT !.on = @ + 1]

WatcherOnChange ==
  /\ pc = "watcherOn"
  /\ watcher' = WatcherOn(watcher)
  /\ pc' = "check"
  /\ UNCHANGED << options, browserWindows, appListeners, closedListeners,
                  hardWatcher, proc, reloadAllCount, changeCount, respawns, closedWins,
                  order, wellBehaved, ev >>

\* variant: the hard reset block is also entered when forceHardReset is set
HasExecutableOrForce(opts) == opts.electron # Absent \/ opts.forceHardReset

\* if (eXecutable)
HasExecutable(opts) == opts.electron # Absent

\* fs.existsSync(eXecutable)
ExecutableUsable(exe) == FileExists(exe)

\* if (eXecutable) { if (!fs.existsSync(eXecutable)) throw ... }
CheckExecutable ==
  /\ pc = "check"
  /\ pc' = IF ~HasExecutable(options) THEN "done"
           ELSE IF ~ExecutableUsable(options.electron) THEN "threw"
           ELSE "hardWatch"
  /\ UNCHANGED << options, browserWindows, appListeners, closedListeners,
                  watcher, hardWatcher, proc, reloadAllCount, changeCount,
                  respawns, closedWins,
                  order, wellBehaved, ev >>

\* const hardWatcher = chokidar.watch(mainFile, Object.assign({ ignored: [ignoredPaths] }, options))
HardIgnored(opts) == AssignIgnored({"ignoredPaths"}, opts)

WatchMainFile ==
  /\ pc = "hardWatch"
  /\ hardWatcher' = ChokidarWatch({mainFile}, HardIgnored(options))
  /\ pc' = "force"
  /\ UNCHANGED << options, browserWindows, appListeners, closedListeners,
                  watcher, proc, reloadAllCount, changeCount, respawns, closedWins,
                  order, wellBehaved, ev >>

\* variant: the flag is not tested, every hard reset is forced
ForceBranchAlways(opts) == TRUE

\* variant: the flag is compared with the string 'true'
ForceBranchNever(opts) == FALSE

\* if (options.forceHardReset === true)
ForceBranch(opts) == opts.forceHardReset = TRUE

\* variant: the glob is not added to the main-file watcher
HardWatcherAddSkipped(hw, g) == hw

\* hardWatcher.add(glob)
HardWatcherAdd(hw, g) == [hw EXCEPT !.paths = @ \cup {g}]

\* variant: the general watcher is left open
WatcherCloseSkipped(w) == w

\* watcher.close()
WatcherClose(w) == [w EXCEPT !.closed = TRUE]

\* if (options.forceHardReset === true) { hardWatcher.add(glob); watcher.close(); }
ForceHardReset ==
  /\ pc = "force"
  /\ IF ForceBranch(options)
       THEN /\ hardWatcher' = HardWatcherAdd(hardWatcher, glob)
            /\ watcher' = WatcherClose(watcher)
       ELSE UNCHANGED << hardWatcher, watcher >>
  /\ pc' = "once"
  /\ UNCHANGED << options, browserWindows, appListeners, closedListeners,
                  proc, reloadAllCount, changeCount, respawns, closedWins,
                  order, wellBehaved, ev >>

\* variant: the hard reset listener is registered with on() instead of once()
WatcherOnceAsOn(w) == [w EXCEPT !.on = @ + 1]

\* hardWatcher.once('change', hardResetHandler)
WatcherOnce(w) == [w EXCEPT !.once = @ + 1]

HardWatcherOnce ==
  /\ pc = "once"
  /\ hardWatcher' = WatcherOnce(hardWatcher)
  /\ pc' = "done"
  /\ UNCHANGED << options, browserWindows, appListeners, closedListeners,
                  watcher, proc, reloadAllCount, changeCount, respawns, closedWins,
                  order, wellBehaved, ev >>

(* ---------------------------- events ----------------------------------- *)
\* the call has returned or thrown and the process still runs its event loop
Returned == pc \in {"done", "threw"} /\ proc # "exited"

\* app emits 'browser-window-created' (e, bw)
WindowCreated(bw) ==
  /\ Returned
  /\ appListeners > 0
  /\ Len(browserWindows) < MaxLive
  /\ closedListeners[bw] < MaxListeners
  /\ browserWindows' = Push(browserWindows, bw)
  /\ closedListeners' = [closedListeners EXCEPT ![bw] = @ + 1]
  /\ closedWins' = closedWins \ {bw}
  /\ order' = IF closedListeners[bw] = 0 THEN Append(order, bw) ELSE order
  /\ wellBehaved' = (wellBehaved /\ closedListeners[bw] = 0)
  /\ ev' = [NoEvent EXCEPT !.op = "created", !.win = bw, !.pre = browserWindows]
  /\ UNCHANGED << options, pc, appListeners, watcher, hardWatcher, proc,
                  reloadAllCount, changeCount, respawns >>

\* bw emits 'closed'
WindowClosed(bw) ==
  /\ Returned
  /\ closedListeners[bw] > 0
  /\ browserWindows' = RunClosed(browserWindows, bw, closedListeners[bw])
  /\ closedWins' = closedWins \cup {bw}
  /\ wellBehaved' = (wellBehaved /\ bw \notin closedWins)
  /\ ev' = [NoEvent EXCEPT !.op = "closed", !.win = bw, !.pre = browserWindows]
  /\ UNCHANGED << options, pc, appListeners, closedListeners, watcher,
                  hardWatcher, proc, reloadAllCount, changeCount, respawns,
                  order >>

\* the general watcher emits 'change' for path p: its on- and once-listeners
\* run, and the once-listeners are removed
GeneralChange(p) ==
  /\ Returned
  /\ Emits(watcher, p)
  /\ changeCount < MaxChanges
  /\ changeCount' = changeCount + 1
  /\ LET n == watcher.on + watcher.once
     IN  /\ reloadAllCount' = reloadAllCount + n
         /\ ev' = [NoEvent EXCEPT !.op = "change", !.path = p,
                                  !.pre = browserWindows,
                                  !.sweeps = RunSoft(browserWindows, n)]
  /\ watcher' = [watcher EXCEPT !.once = 0]
  /\ UNCHANGED << options, pc, browserWindows, appListeners, closedListeners,
                  hardWatcher, proc, respawns, closedWins, order, wellBehaved >>

\* n listeners of the main-file watcher run hardResetHandler in turn
RECURSIVE RunHard(_, _)
RunHard(opts, n) ==
  IF n = 0 THEN <<>> ELSE hardResetHandler(opts) \o RunHard(opts, n - 1)

\* the main-file watcher emits 'change' for path p: its on- and once-listeners
\* run, and the once-listeners are removed
HardChange(p) ==
  /\ Returned
  /\ Emits(hardWatcher, p)
  /\ respawns < MaxRespawns
  /\ LET n == hardWatcher.on + hardWatcher.once
     IN  /\ ev' = [NoEvent EXCEPT !.op = "hardChange", !.path = p,
                                  !.pre = browserWindows,
                                  !.calls = RunHard(options, n)]
         /\ respawns' = respawns + n
         /\ proc' = IF n = 0 THEN proc
                    ELSE AfterTerminator(proc, Terminator(options.hardResetMethod))
  /\ hardWatcher' = [hardWatcher EXCEPT !.once = 0]
  /\ UNCHANGED << options, pc, browserWindows, appListeners, closedListeners,
                  watcher, reloadAllCount, changeCount, closedWins, order,
                  wellBehaved >>

\* app.quit() completes: the process ends
Terminate ==
  /\ proc = "quitting"
  /\ proc' = "exited"
  /\ ev' = [NoEvent EXCEPT !.op = "exit", !.pre = browserWindows]
  /\ UNCHANGED << options, pc, browserWindows, appListeners, closedListeners,
                  watcher, hardWatcher, reloadAllCount, changeCount, respawns,
                  closedWins, order, wellBehaved >>

Next ==
  \/ WatchGeneral
  \/ AppOnCreated
  \/ WatcherOnChange
  \/ CheckExecutable
  \/ WatchMainFile
  \/ ForceHardReset
  \/ HardWatcherOnce
  \/ \E bw \in Windows : WindowCreated(bw)
  \/ \E bw \in Windows : WindowClosed(bw)
  \/ \E p \in Paths : GeneralChange(p)
  \/ \E p \in Paths : HardChange(p)
  \/ Terminate

Spec == Init /\ [][Next]_vars

TypeOK ==
  /\ options \in Configs
  /\ pc \in {"start", "appOn", "watcherOn", "check", "hardWatch", "force",
             "once", "done", "threw"}
  /\ Len(browserWindows) <= MaxLive
  /\ proc \in {"running", "quitting", "exited"}

(* ---------------------------- claims ----------------------------------- *)
\* the paths the general watcher is asked to report: under the glob and not
\* matched by its ignore list
Tracked(p) ==
  /\ Covers(glob, p)
  /\ ~\E m \in GeneralIgnored(options) : Matches(m, p)

\* number of spawn() calls among the calls of the last event
SpawnCalls == Cardinality({i \in 1..Len(ev.calls) : ev.calls[i].fn = "spawn"})

\* C1: without options.electron the call never throws and opens no main-file
\* watcher; once it has returned, the general watcher reports every tracked
\* path, each 'change' it emits runs exactly one reloadAll sweep, and no
\* respawn ever happens.
C1_SoftReloadOnly ==
  options.electron = Absent =>
    /\ pc # "threw"
    /\ ~hardWatcher.created
    /\ respawns = 0
    /\ reloadAllCount = changeCount
    /\ ev.op = "change" => Len(ev.sweeps) = 1
    /\ pc = "done" => \A p \in Paths : Tracked(p) => Emits(watcher, p)

C1_Witness ==
  /\ options.electron = Absent
  /\ ev.op = "change"
  /\ ev.path = <<"app", "src", "a.js">>
  /\ Len(ev.sweeps) = 1
  /\ reloadAllCount = 2
  /\ closedWins # {}

\* C2: with options.electron naming an existing file and forceHardReset not
\* true, the main-file watcher reports the main file and nothing else; the
\* hard reset listener is armed exactly until the first such change, which
\* makes exactly one respawn and no reload; later changes make no call, so
\* there is at most one respawn.
C2_OneShotRespawn ==
  (options.electron # Absent /\ ~options.forceHardReset /\ pc = "done") =>
    /\ respawns <= 1
    /\ hardWatcher.on = 0
    /\ hardWatcher.once = 1 - respawns
    /\ \A p \in Paths :
         (hardWatcher.created /\ ~hardWatcher.closed)
           /\ (p = mainFile <=> (\E r \in hardWatcher.paths : Covers(r, p)))
    /\ proc # "exited" => Emits(hardWatcher, mainFile)
    /\ ev.op = "hardChange" =>
         /\ ev.path = mainFile
         /\ respawns = 1
         /\ ev.sweeps = <<>>
         /\ SpawnCalls <= 1
         /\ ev.calls = <<>> \/ SpawnCalls = 1

\* a second change of the main file after the respawn: nothing is called
C2_Witness ==
  /\ options.electron # Absent
  /\ ~options.forceHardReset
  /\ ev.op = "hardChange"
  /\ ev.path = mainFile
  /\ ev.calls = <<>>
  /\ respawns = 1
  /\ proc = "quitting"

\* C3 as stated: with forceHardReset = true no reloadAll ever occurs.
C3_Original ==
  options.forceHardReset => reloadAllCount = 0

\* C3 as amended: with forceHardReset = true and options.electron naming an
\* existing file, the general watcher is closed when the call returns, it
\* emits no 'change', and no reloadAll ever occurs.
C3_ForcedNoSoftReload ==
  (options.forceHardReset /\ options.electron # Absent
     /\ FileExists(options.electron)) =>
    /\ reloadAllCount = 0
    /\ changeCount = 0
    /\ ev.op # "change"
    /\ pc = "done" => (watcher.closed /\ \A p \in Paths : ~Emits(watcher, p))

\* a change of a tracked file in forced mode went to the hard reset
C3_Witness ==
  /\ options.forceHardReset
  /\ options.electron # Absent
  /\ watcher.closed
  /\ ev.op = "hardChange"
  /\ ev.path = <<"app", "src", "a.js">>
  /\ ev.calls # <<>>
  /\ reloadAllCount = 0
  /\ browserWindows # <<>>

\* C4: when the executable does not exist the call throws with no watcher
\* created and no listener registered, so nothing is reloaded or respawned
\* afterwards.
C4_AbortedEntirely ==
  pc = "threw" =>
    /\ ~watcher.created
    /\ watcher.on = 0
    /\ appListeners = 0
    /\ browserWindows = <<>>
    /\ reloadAllCount = 0
    /\ respawns = 0

\* C5: a 'closed' notification for a window that is not in the list leaves
\* the list as it was.
C5_ClosedIdempotent ==
  (ev.op = "closed" /\ \A i \in 1..Len(ev.pre) : ev.pre[i] # ev.win) =>
    browserWindows = ev.pre

\* C6: every spawn() call of a hard reset gets the arguments
\* electronArgv ++ [appPath] ++ appArgv, a missing list counting as empty.
C6_SpawnArguments ==
  \A i \in 1..Len(ev.calls) :
    ev.calls[i].fn = "spawn" =>
      LET a == ev.calls[i].args
          e == IF options.electronArgv.given THEN options.electronArgv.val ELSE <<>>
          x == IF options.appArgv.given THEN options.appArgv.val ELSE <<>>
      IN  /\ ev.calls[i].exe = options.electron
          /\ Len(a) = Len(e) + 1 + Len(x)
          /\ \A j \in 1..Len(e) : a[j] = e[j]
          /\ a[Len(e) + 1] = appPath
          /\ \A j \in 1..Len(x) : a[Len(e) + 1 + j] = x[j]
          /\ (e = <<"--inspect">> /\ x = <<"--flag">>) =>
               a = <<"--inspect", "/app", "--flag">>

C6_Witness ==
  /\ ev.op = "hardChange"
  /\ Len(ev.calls) > 0
  /\ ev.calls[1].fn = "spawn"
  /\ ev.calls[1].args = <<"--inspect", "/app", "--flag">>

\* C7: a created window is appended to the list, and each reloadAll sweep
\* reloads exactly the windows of the list, once each, in list order, leaving
\* the list as it was.
C7_ReloadInCreationOrder ==
  /\ ev.op = "created" => browserWindows = ev.pre \o <<ev.win>>
  /\ ev.op = "change" =>
       /\ browserWindows = ev.pre
       /\ \A i \in 1..Len(ev.sweeps) : ev.sweeps[i] = browserWindows

C7_Witness ==
  /\ ev.op = "change"
  /\ ev.sweeps = << <<"A", "B">> >>
  /\ closedWins = {}

\* C8: a window whose latest lifecycle event is 'closed' is in no sweep, and
\* only windows of the list are reloaded.
C8_ClosedNotReloaded ==
  /\ \A i \in 1..Len(browserWindows) : browserWindows[i] \notin closedWins
  /\ ev.op = "change" =>
       \A i \in 1..Len(ev.sweeps) : \A j \in 1..Len(ev.sweeps[i]) :
         /\ ev.sweeps[i][j] \notin closedWins
         /\ \E k \in 1..Len(ev.pre) : ev.pre[k] = ev.sweeps[i][j]

C8_Witness ==
  /\ ev.op = "change"
  /\ "A" \in closedWins
  /\ ev.sweeps = << <<"B">> >>

\* C9: unless forceHardReset is true, the general watcher never emits a
\* 'change' for the main file, so a main-file change never soft-reloads.
C9_EntryExcluded ==
  ~options.forceHardReset =>
    /\ ~(ev.op = "change" /\ ev.path = mainFile)
    /\ ~Emits(watcher, mainFile)

\* C10: when options.electron is given and the file is missing or not
\* executable, the call throws: it never gets past the check.
C10_ExecutableValidated ==
  (options.electron # Absent
     /\ ~(FileExists(options.electron) /\ FileExecutable(options.electron))) =>
    pc \in {"start", "appOn", "watcherOn", "check", "threw"}

\* the general watcher as the call leaves it when it is not closed
OpenGeneralWatcher ==
  [ created |-> TRUE, closed |-> FALSE, paths |-> {glob},
    ignored |-> GeneralIgnored(options), on |-> 1, once |-> 0 ]

\* the calls of the last event that terminate the process
TerminatorCalls ==
  {i \in 1..Len(ev.calls) : ev.calls[i].fn \in {"app.exit", "app.quit"}}

\* C11: a hard reset makes exactly one termination call, app.exit() when
\* hardResetMethod is 'exit' and app.quit() for every other value, a missing
\* one included.
C11_ExitIffExitMethod ==
  (ev.op = "hardChange" /\ ev.calls # <<>>) =>
    /\ Cardinality(TerminatorCalls) = 1
    /\ \A i \in TerminatorCalls :
         /\ ev.calls[i].fn = "app.exit" <=> options.hardResetMethod = "exit"
         /\ ev.calls[i].fn = "app.quit" <=> options.hardResetMethod # "exit"
    /\ options.hardResetMethod = "exit" => proc = "exited"

C11_Witness ==
  /\ ev.op = "hardChange"
  /\ options.hardResetMethod = Absent
  /\ Len(ev.calls) = 3
  /\ ev.calls[3].fn = "app.quit"
  /\ proc = "quitting"

\* C12: with options.electron naming an existing file and forceHardReset =
\* true, the main-file watcher reports the main file and every path the
\* general watcher tracks; the first such change respawns once and later
\* ones make no call.
C12_ForcedAnyChangeOnce ==
  (options.electron # Absent /\ options.forceHardReset /\ pc = "done") =>
    /\ respawns <= 1
    /\ hardWatcher.on = 0
    /\ hardWatcher.once = 1 - respawns
    /\ proc # "exited" =>
         \A p \in Paths : (p = mainFile \/ Tracked(p)) => Emits(hardWatcher, p)
    /\ ev.op = "hardChange" =>
         /\ respawns = 1
         /\ SpawnCalls <= 1
         /\ ev.calls = <<>> \/ SpawnCalls = 1

\* a second tracked change in forced mode: nothing is called
C12_Witness ==
  /\ options.electron # Absent
  /\ options.forceHardReset
  /\ ev.op = "hardChange"
  /\ ev.path = <<"app", "src", "a.js">>
  /\ ev.calls = <<>>
  /\ respawns = 1

\* C13: with options.electron naming an existing file and forceHardReset not
\* true, the general watcher stays open and each 'change' it emits runs one
\* sweep and no spawn; the main-file watcher reports only the main file, so
\* only a main-file change makes a hard reset.
C13_SoftForOthersHardForEntry ==
  (options.electron # Absent /\ ~options.forceHardReset /\ pc = "done") =>
    /\ watcher = OpenGeneralWatcher
    /\ proc # "exited" =>
         \A p \in Paths : (Tracked(p) /\ p # mainFile) =>
           (Emits(watcher, p) /\ ~Emits(hardWatcher, p))
    /\ ev.op = "change" => (Len(ev.sweeps) = 1 /\ ev.calls = <<>>)
    /\ ev.op = "hardChange" => (ev.path = mainFile /\ ev.sweeps = <<>>)

C13_Witness ==
  /\ options.electron = "/bin/electron"
  /\ ~options.forceHardReset
  /\ ev.op = "change"
  /\ ev.path = <<"app", "src", "a.js">>
  /\ ev.sweeps = << <<"A">> >>
  /\ respawns = 0
  /\ hardWatcher.once = 1

\* C14: with forceHardReset = true and no options.electron the flag is never
\* read: the call returns without throwing, opens no main-file watcher and
\* leaves the general watcher exactly as with forceHardReset = false; each
\* general change runs one sweep and nothing respawns.
C14_ForceWithoutExecutableNoOp ==
  (options.forceHardReset /\ options.electron = Absent) =>
    /\ pc \notin {"threw", "hardWatch", "force", "once"}
    /\ hardWatcher = NoWatcher
    /\ pc = "done" => watcher = OpenGeneralWatcher
    /\ respawns = 0
    /\ proc = "running"
    /\ reloadAllCount = changeCount
    /\ ev.op = "change" => (Len(ev.sweeps) = 1 /\ ev.sweeps[1] = ev.pre)
    /\ ev.op # "hardChange"

C14_Witness ==
  /\ options.forceHardReset
  /\ options.electron = Absent
  /\ pc = "done"
  /\ ev.op = "change"
  /\ ev.sweeps = << <<"B">> >>
  /\ reloadAllCount = 1

\* C15: each firing of the hard reset handler calls spawn once, detached
\* and with inherited stdio, then child.unref(), then app.quit() or
\* app.exit(): the termination call is the last of the three.
C15_SpawnUnrefThenTerminate ==
  (ev.op = "hardChange" /\ ev.calls # <<>>) =>
    /\ Len(ev.calls) = 3
    /\ ev.calls[1].fn = "spawn"
    /\ ev.calls[1].detached
    /\ ev.calls[1].stdio = "inherit"
    /\ ev.calls[2].fn = "child.unref"
    /\ ev.calls[3].fn \in {"app.exit", "app.quit"}
    /\ SpawnCalls = 1

C15_Witness ==
  /\ ev.op = "hardChange"
  /\ Len(ev.calls) = 3
  /\ ev.calls[1].fn = "spawn"
  /\ ev.calls[3].fn = "app.exit"
  /\ proc = "exited"

\* C16: in every configuration each 'change' the general watcher emits runs
\* one sweep at once, over the list as it is then: after n changes there
\* have been n sweeps.
C16_OneSweepPerChange ==
  /\ reloadAllCount = changeCount
  /\ ev.op = "change" =>
       /\ changeCount >= 1
       /\ Len(ev.sweeps) = 1
       /\ ev.sweeps[1] = ev.pre

C16_Witness ==
  /\ changeCount = MaxChanges
  /\ reloadAllCount = MaxChanges
  /\ ev.op = "change"
  /\ ev.sweeps = << <<"B", "A">> >>

\* C17: with forceHardReset = true, whenever a hard reset listener is
\* registered on the main-file watcher the general watcher is already
\* closed.
C17_ClosedBeforeArmed ==
  (options.forceHardReset /\ hardWatcher.on + hardWatcher.once > 0) =>
    (watcher.closed /\ \A p \in Paths : ~Emits(watcher, p))

\* the general watcher is closed and the listener not yet registered
C17_Witness ==
  /\ options.forceHardReset
  /\ pc = "once"
  /\ watcher.closed
  /\ hardWatcher.once = 0

\* the windows of a list that are not in a set, in list order
RECURSIVE Without(_, _)
Without(list, gone) ==
  IF list = <<>> THEN <<>>
  ELSE IF list[1] \in gone THEN Without(Tail(list), gone)
  ELSE <<list[1]>> \o Without(Tail(list), gone)

\* C18: while no window has been created twice or closed twice, the list is
\* the created windows that are not closed, once each, in creation order;
\* a sweep leaves the list as it was.
C18_RegistryInvariant ==
  /\ wellBehaved => browserWindows = Without(order, closedWins)
  /\ ev.op = "change" => browserWindows = ev.pre

C18_Witness ==
  /\ wellBehaved
  /\ order = <<"B", "A">>
  /\ closedWins = {"B"}
  /\ browserWindows = <<"A">>
  /\ ev.op = "change"

\* C19: a hard reset leaves the window list and the general watcher as they
\* were; when forceHardReset is not true and the process was asked to quit,
\* it is still running its event loop, the general watcher still reports
\* every tracked path and each 'change' it emits still runs one sweep.
C19_HardResetFrame ==
  /\ ev.op = "hardChange" => browserWindows = ev.pre
  /\ (options.electron # Absent /\ ~options.forceHardReset /\ respawns > 0) =>
       /\ watcher = OpenGeneralWatcher
       /\ (options.hardResetMethod # "exit" /\ ev.op = "hardChange"
             /\ ev.calls # <<>>) => proc = "quitting"
       /\ proc = "quitting" => \A p \in Paths : Tracked(p) => Emits(watcher, p)
       /\ ev.op = "change" => (Len(ev.sweeps) = 1 /\ ev.sweeps[1] = browserWindows)

\* a general change delivered after the hard reset, before the process ended
C19_Witness ==
  /\ ~options.forceHardReset
  /\ respawns = 1
  /\ proc = "quitting"
  /\ ev.op = "change"
  /\ Len(ev.sweeps) = 1
  /\ ev.sweeps[1] # <<>>

====
